---------------------------- MODULE Spec2Model ----------------------------
(* example01.cpp: the host program `main` (platform and device discovery,  *)
(* kernel build, CPU timing run, two timed OpenCL runs, report) and the    *)
(* two device kernels `add` and `looped_add`.                              *)
(*                                                                         *)
(* Spec   : main, statement by statement, with the command queue and the   *)
(*          device as a second process.                                    *)
(* KSpec  : one launch of a kernel on arbitrary small inputs (vector       *)
(*          length, global size, loop count, buffer contents), executed    *)
(*          one work-item at a time in any order.                          *)
EXTENDS Integers, Sequences, FiniteSets, TLC

-----------------------------------------------------------------------------
(* Program constants and bounds *)

\* Nthreads = 10 (line 104).
Nthreads == 10

\* The source has n = 100000 = Nthreads * 10000; the model keeps n a multiple
\* of Nthreads and scales the share of one work-item.
ElemsPerThread == 2

n == Nthreads * ElemsPerThread

\* The source has k = 1000 loop iterations; scaled.
k == 3

\* all_devices[1] (line 50).
DeviceIndex == 1

MaxPlatforms == 2
MaxDevices == 2
MaxTicks == 2

\* Inputs of a single kernel launch in KSpec.
MaxN == 4
MaxGlobalSize == 3
MaxK == 2

Ticks == 0..MaxTicks

\* Contents of freshly allocated (never written) device memory.
Uninit == {0, -7}

\* Element values of the kernel inputs in KSpec.
ElemVals == {-1, 2}

NoArr == [x \in {} |-> 0]

Fill(len, g) == [x \in 0..(len - 1) |-> g]

-----------------------------------------------------------------------------
(* The kernels (lines 60-92).  A kernel sees its four arguments as the     *)
(* record mem = [v1, v2, v3, constants]; gsize is get_global_size(0) and   *)
(* ID is get_global_id(0).                                                 *)

\* ratio = (n / Nthreads), C integer division of a non-negative by a positive.
Ratio(nn, gsize) == nn \div gsize

\* Slip: the first element of every range is skipped.
StartSkipsFirst(nn, gsize, ID) == Ratio(nn, gsize) * ID + 1

Start(nn, gsize, ID) == Ratio(nn, gsize) * ID

\* Slip: the loop bound is inclusive (j <= stop).
StopOnePast(nn, gsize, ID) == Ratio(nn, gsize) * (ID + 1) + 1

Stop(nn, gsize, ID) == Ratio(nn, gsize) * (ID + 1)

\* The values j takes in `for (j=start; j<stop; j++)`.
ItemRange(constants, gsize, ID) ==
    Start(constants[0], gsize, ID) .. (Stop(constants[0], gsize, ID) - 1)

\* v3[j] = v1[j] + v2[j] for one j.
Sum(a, b) == a + b

\* One pass of the inner loop over the work-item's range.  An index outside
\* the buffer touches no element of it.
InnerLoop(mem, gsize, ID) ==
    [mem EXCEPT !.v3 = [x \in DOMAIN mem.v3 |->
        IF x \in ItemRange(mem.constants, gsize, ID)
        THEN Sum(mem.v1[x], mem.v2[x])
        ELSE mem.v3[x]]]

\* kernel add: one pass.
add(mem, gsize, ID) == InnerLoop(mem, gsize, ID)

RECURSIVE LoopedAddFrom(_, _, _, _)
LoopedAddFrom(mem, gsize, ID, it) ==
    IF it < mem.constants[1]
    THEN LoopedAddFrom(InnerLoop(mem, gsize, ID), gsize, ID, it + 1)
    ELSE mem

\* kernel looped_add: constants[1] passes.
looped_add(mem, gsize, ID) == LoopedAddFrom(mem, gsize, ID, 0)

WorkItem(name, mem, gsize, ID) ==
    IF name = "add" THEN add(mem, gsize, ID) ELSE looped_add(mem, gsize, ID)

\* The memory accesses of one work-item: reads of constants, and per visited
\* index j a read of v1[j], a read of v2[j] and a write of v3[j].
Passes(name, constants) == IF name = "add" THEN 1 ELSE constants[1]

ConstReads(name) ==
    {[buf |-> "constants", idx |-> 0, mode |-> "r"]}
    \cup (IF name = "add" THEN {}
          ELSE {[buf |-> "constants", idx |-> 1, mode |-> "r"]})

Accesses(name, constants, gsize, ID) ==
    ConstReads(name)
    \cup (IF Passes(name, constants) > 0
          THEN UNION {{[buf |-> "v1", idx |-> j, mode |-> "r"],
                       [buf |-> "v2", idx |-> j, mode |-> "r"],
                       [buf |-> "v3", idx |-> j, mode |-> "w"]} :
                      j \in ItemRange(constants, gsize, ID)}
          ELSE {})

\* The index range [start, stop) a work-item computes.
RangeOf(constants, gsize, ID) ==
    [id |-> ID,
     start |-> Start(constants[0], gsize, ID),
     stop |-> Stop(constants[0], gsize, ID)]

\* A whole launch: every work-item of the NDRange has run.  The work-items
\* store v1[j] + v2[j] at each index they visit, whatever their order.
RECURSIVE RunItems(_, _, _, _)
RunItems(name, mem, gsize, ID) ==
    IF ID < gsize
    THEN RunItems(name, WorkItem(name, mem, gsize, ID), gsize, ID + 1)
    ELSE mem

RunKernel(name, mem, gsize) == RunItems(name, mem, gsize, 0)

-----------------------------------------------------------------------------
(* timeAddVectorsCPU (lines 6-27): the array C it has computed when it     *)
(* returns.  The duration it returns is a clock reading, an input.         *)

RECURSIVE CpuLoop(_, _, _, _, _)
CpuLoop(cA, cB, cC, it, kk) ==
    IF it < kk
    THEN CpuLoop(cA, cB, [x \in DOMAIN cC |-> Sum(cA[x], cB[x])], it + 1, kk)
    ELSE cC

timeAddVectorsCPU(nn, kk) ==
    CpuLoop([x \in 0..(nn - 1) |-> x],
            [x \in 0..(nn - 1) |-> nn - x],
            Fill(nn, 0), 0, kk)

-----------------------------------------------------------------------------
(* main: host data (lines 101-123) *)

hostConstants == [x \in 0..1 |-> IF x = 0 THEN n ELSE k]

HostA == [x \in 0..(n - 1) |-> x]

HostB == [x \in 0..(n - 1) |-> n - x - 1]

HostC == Fill(n, 0)

\* A buffer set as allocated by the four cl::Buffer constructors: n ints for
\* A, B, C and 2 ints for the constants, contents not initialised.
FreshBuffers(g) ==
    [A |-> Fill(n, g), B |-> Fill(n, g), C |-> Fill(n, g),
     constants |-> Fill(2, g)]

NoBuffers == [A |-> NoArr, B |-> NoArr, C |-> NoArr, constants |-> NoArr]

BufferNames == <<"A", "B", "C", "constants">>

KernelOf(pth) == IF pth = 1 THEN "looped_add" ELSE "add"

\* Slip: the reads are passed CL_FALSE.
BlockingWritesOnly(op) == op = "write"

\* enqueueWriteBuffer and enqueueReadBuffer are passed CL_TRUE (lines 137-139,
\* 145, 157-159, 163); KernelFunctor::operator() enqueues the NDRange and
\* returns (lines 142, 161).
Blocking(op) == op \in {"write", "read"}

\* Slip: the loop body of the second run starts at the upload of B.
PcAfterSkipsUploadA(label, pth, iv) ==
    CASE label = "alloc"  -> IF pth = 1 THEN "writeA" ELSE "loop"
      [] label = "loop"   -> IF iv < k THEN "writeB" ELSE "read"
      [] label = "writeA" -> "writeB"
      [] label = "writeB" -> "writeK"
      [] label = "writeK" -> "launch"
      [] label = "launch" -> IF pth = 1 THEN "read" ELSE "loop"
      [] label = "read"   -> "stop"
      [] label = "stop"   -> IF pth = 1 THEN "alloc" ELSE "report1"
      [] label = "report1" -> "report2"
      [] OTHER -> "exited"

\* Slip: the second run leaves its loop after the first launch.
PcAfterSingleLaunch(label, pth, iv) ==
    CASE label = "alloc"  -> IF pth = 1 THEN "writeA" ELSE "loop"
      [] label = "loop"   -> IF iv < k THEN "writeA" ELSE "read"
      [] label = "writeA" -> "writeB"
      [] label = "writeB" -> "writeK"
      [] label = "writeK" -> "launch"
      [] label = "launch" -> "read"
      [] label = "read"   -> "stop"
      [] label = "stop"   -> IF pth = 1 THEN "alloc" ELSE "report1"
      [] label = "report1" -> "report2"
      [] OTHER -> "exited"

\* Control flow of the two timed runs (lines 130-164): the statement after
\* `label` in run pth, iv being the loop counter of the second run.
PcAfter(label, pth, iv) ==
    CASE label = "alloc"  -> IF pth = 1 THEN "writeA" ELSE "loop"
      [] label = "loop"   -> IF iv < k THEN "writeA" ELSE "read"
      [] label = "writeA" -> "writeB"
      [] label = "writeB" -> "writeK"
      [] label = "writeK" -> "launch"
      [] label = "launch" -> IF pth = 1 THEN "read" ELSE "loop"
      [] label = "read"   -> "stop"
      [] label = "stop"   -> IF pth = 1 THEN "alloc" ELSE "report1"
      [] label = "report1" -> "report2"
      [] OTHER -> "exited"

\* time_ratio = CPUtime / GPUtime in IEEE arithmetic on non-negative times:
\* x/0 is +inf for x > 0 and 0/0 is NaN.
TimeRatio(c, g) ==
    IF g = 0
    THEN (IF c = 0 THEN [kind |-> "nan", num |-> 0, den |-> 1]
                   ELSE [kind |-> "inf", num |-> 1, den |-> 1])
    ELSE [kind |-> "fin", num |-> c, den |-> g]

\* Slip: time_ratio >= 1.
GreaterOrEqualOne(r) ==
    \/ r.kind = "inf"
    \/ r.kind = "fin" /\ r.num >= r.den

\* time_ratio > 1 (lines 172, 182); every comparison with NaN is false.
GreaterThanOne(r) ==
    \/ r.kind = "inf"
    \/ r.kind = "fin" /\ r.num > r.den

Verdict(r) == IF GreaterThanOne(r) THEN "faster" ELSE "slower"

-----------------------------------------------------------------------------
VARIABLES
    pc,          \* the statement main is at
    path,        \* 1: first timed GPU run, 2: second timed GPU run
    i,           \* loop counter of the second run (line 156)
    status,      \* "running", "exit0", "exit1", "crash"
    nPlatforms,  \* all_platforms.size(), -1 before the query
    nDevices,    \* all_devices.size(), -1 before the query
    selected,    \* the index main has read all_devices at, -1 before
    device,      \* "none", "valid", "invalid"
    built,       \* "unknown", "ok", "failed"
    CPUtime, GPUtime1, GPUtime2,   \* clock ticks, -1 while unset
    cpuC,        \* C of timeAddVectorsCPU at its return
    A, B, C,     \* host arrays of main
    buffer,      \* device memory: buffer[1] = buffer_A.., buffer[2] = buffer_A2..
    queue,       \* commands enqueued and not yet completed, in order
    waiting,     \* the host is inside a blocking enqueue call
    hist,        \* the operations main has issued, in order
    out,         \* the two report blocks printed
    \* one kernel launch on its own (KSpec)
    kernel, gsize, kin, kmem, ranges, acc

mainVars == <<pc, path, i, status, nPlatforms, nDevices, selected, device,
              built, CPUtime, GPUtime1, GPUtime2, cpuC, A, B, C, buffer,
              queue, waiting, hist, out>>

kVars == <<kernel, gsize, kin, kmem, ranges, acc>>

vars == <<pc, path, i, status, nPlatforms, nDevices, selected, device,
          built, CPUtime, GPUtime1, GPUtime2, cpuC, A, B, C, buffer,
          queue, waiting, hist, out, kernel, gsize, kin, kmem, ranges, acc>>

NoMem == [v1 |-> NoArr, v2 |-> NoArr, v3 |-> NoArr, constants |-> NoArr]

MainInit ==
    /\ pc = "platforms"
    /\ path = 1
    /\ i = 0
    /\ status = "running"
    /\ nPlatforms = -1
    /\ nDevices = -1
    /\ selected = -1
    /\ device = "none"
    /\ built = "unknown"
    /\ CPUtime = -1
    /\ GPUtime1 = -1
    /\ GPUtime2 = -1
    /\ cpuC = NoArr
    /\ A = NoArr
    /\ B = NoArr
    /\ C = NoArr
    /\ buffer = [p \in {1, 2} |-> NoBuffers]
    /\ queue = << >>
    /\ waiting = FALSE
    /\ hist = << >>
    /\ out = << >>

KIdle ==
    /\ kernel = "none"
    /\ gsize = 0
    /\ kin = NoMem
    /\ kmem = NoMem
    /\ ranges = {}
    /\ acc = {}

Init == MainInit /\ KIdle

Exit(code) ==
    /\ status' = code
    /\ pc' = "exited"

\* lines 31-38
GetPlatforms ==
    /\ pc = "platforms"
    /\ \E np \in 0..MaxPlatforms :
        /\ nPlatforms' = np
        /\ IF np = 0 THEN Exit("exit1")
                     ELSE pc' = "devices" /\ status' = status
    /\ UNCHANGED <<path, i, nDevices, selected, device, built, CPUtime,
                   GPUtime1, GPUtime2, cpuC, A, B, C, buffer, queue, waiting,
                   hist, out>>
    /\ UNCHANGED kVars

\* lines 42-47
GetDevices ==
    /\ pc = "devices"
    /\ \E nd \in 0..MaxDevices :
        /\ nDevices' = nd
        /\ IF nd = 0 THEN Exit("exit1")
                     ELSE pc' = "select" /\ status' = status
    /\ UNCHANGED <<path, i, nPlatforms, selected, device, built, CPUtime,
                   GPUtime1, GPUtime2, cpuC, A, B, C, buffer, queue, waiting,
                   hist, out>>
    /\ UNCHANGED kVars

\* line 50: all_devices[1], unchecked.  Past the end of the vector the read
\* is undefined: the process is killed, or it goes on with a handle that is
\* no device.
SelectDevice ==
    /\ pc = "select"
    /\ selected' = DeviceIndex
    /\ IF DeviceIndex < nDevices
       THEN /\ device' = "valid"
            /\ pc' = "build"
            /\ status' = status
       ELSE \/ /\ device' = device
               /\ Exit("crash")
            \/ /\ device' = "invalid"
               /\ pc' = "build"
               /\ status' = status
    /\ UNCHANGED <<path, i, nPlatforms, nDevices, built, CPUtime,
                   GPUtime1, GPUtime2, cpuC, A, B, C, buffer, queue, waiting,
                   hist, out>>
    /\ UNCHANGED kVars

\* lines 53-99: program.build; it cannot succeed for a handle that is no
\* device.
Build ==
    /\ pc = "build"
    /\ \E ok \in BOOLEAN :
        /\ (device = "invalid") => ~ok
        /\ built' = IF ok THEN "ok" ELSE "failed"
        /\ IF ok THEN pc' = "cpu" /\ status' = status
                 ELSE Exit("exit1")
    /\ UNCHANGED <<path, i, nPlatforms, nDevices, selected, device, CPUtime,
                   GPUtime1, GPUtime2, cpuC, A, B, C, buffer, queue, waiting,
                   hist, out>>
    /\ UNCHANGED kVars

\* line 108
RunCPU ==
    /\ pc = "cpu"
    /\ cpuC' = timeAddVectorsCPU(n, k)
    /\ \E t \in Ticks : CPUtime' = t
    /\ pc' = "construct"
    /\ UNCHANGED <<path, i, status, nPlatforms, nDevices, selected, device,
                   built, GPUtime1, GPUtime2, A, B, C, buffer, queue, waiting,
                   hist, out>>
    /\ UNCHANGED kVars

\* lines 113-128
Construct ==
    /\ pc = "construct"
    /\ A' = HostA
    /\ B' = HostB
    /\ C' = HostC
    /\ path' = 1
    /\ pc' = "alloc"
    /\ UNCHANGED <<i, status, nPlatforms, nDevices, selected, device, built,
                   CPUtime, GPUtime1, GPUtime2, cpuC, buffer, queue, waiting,
                   hist, out>>
    /\ UNCHANGED kVars

Op(op, obj) == [op |-> op, obj |-> obj, path |-> path,
                iter |-> IF pc \in {"writeA", "writeB", "writeK", "launch"}
                            /\ path = 2
                         THEN i ELSE -1]

\* lines 131-134 and 152-155 (the second run also declares i = 0, line 156)
Alloc ==
    /\ pc = "alloc"
    /\ \E g \in Uninit : buffer' = [buffer EXCEPT ![path] = FreshBuffers(g)]
    /\ hist' = hist \o [x \in 1..4 |-> Op("alloc", BufferNames[x])]
    /\ i' = 0
    /\ pc' = PcAfter("alloc", path, i')
    /\ UNCHANGED <<path, status, nPlatforms, nDevices, selected, device, built,
                   CPUtime, GPUtime1, GPUtime2, cpuC, A, B, C, queue, waiting,
                   out>>
    /\ UNCHANGED kVars

\* line 156: i < k
LoopTest ==
    /\ pc = "loop"
    /\ ~waiting
    /\ pc' = PcAfter("loop", path, i)
    /\ UNCHANGED <<path, i, status, nPlatforms, nDevices, selected, device,
                   built, CPUtime, GPUtime1, GPUtime2, cpuC, A, B, C, buffer,
                   queue, waiting, hist, out>>
    /\ UNCHANGED kVars

Enqueue(op, obj) ==
    /\ ~waiting
    /\ queue' = Append(queue, [op |-> op, obj |-> obj, path |-> path,
                               blocking |-> Blocking(op)])
    /\ waiting' = Blocking(op)
    /\ hist' = Append(hist, Op(op, obj))

\* lines 137-139 and 157-159
EnqueueWrite ==
    /\ \E w \in {<<"writeA", "A">>, <<"writeB", "B">>, <<"writeK", "constants">>} :
        /\ pc = w[1]
        /\ Enqueue("write", w[2])
        /\ pc' = PcAfter(w[1], path, i)
    /\ UNCHANGED <<path, i, status, nPlatforms, nDevices, selected, device,
                   built, CPUtime, GPUtime1, GPUtime2, cpuC, A, B, C, buffer,
                   out>>
    /\ UNCHANGED kVars

\* lines 142 and 161 (with the i++ of line 156 in the second run)
Launch ==
    /\ pc = "launch"
    /\ Enqueue("launch", KernelOf(path))
    /\ i' = IF path = 2 THEN i + 1 ELSE i
    /\ pc' = PcAfter("launch", path, i')
    /\ UNCHANGED <<path, status, nPlatforms, nDevices, selected, device,
                   built, CPUtime, GPUtime1, GPUtime2, cpuC, A, B, C, buffer,
                   out>>
    /\ UNCHANGED kVars

\* lines 145 and 163
EnqueueRead ==
    /\ pc = "read"
    /\ Enqueue("read", "C")
    /\ pc' = PcAfter("read", path, i)
    /\ UNCHANGED <<path, i, status, nPlatforms, nDevices, selected, device,
                   built, CPUtime, GPUtime1, GPUtime2, cpuC, A, B, C, buffer,
                   out>>
    /\ UNCHANGED kVars

\* lines 146-150 and 164
StopTimer ==
    /\ pc = "stop"
    /\ ~waiting
    /\ \E t \in Ticks :
        IF path = 1 THEN GPUtime1' = t /\ GPUtime2' = GPUtime2
                    ELSE GPUtime2' = t /\ GPUtime1' = GPUtime1
    /\ path' = 2
    /\ pc' = PcAfter("stop", path, i)
    /\ UNCHANGED <<i, status, nPlatforms, nDevices, selected, device,
                   built, CPUtime, cpuC, A, B, C, buffer, queue, waiting,
                   hist, out>>
    /\ UNCHANGED kVars

ReportBlock(ver, g) ==
    [ver |-> ver, cpu |-> CPUtime, gpu |-> g,
     verdict |-> Verdict(TimeRatio(CPUtime, g))]

\* lines 167-175
Report1 ==
    /\ pc = "report1"
    /\ out' = Append(out, ReportBlock(1, GPUtime1))
    /\ pc' = PcAfter("report1", path, i)
    /\ UNCHANGED <<path, i, status, nPlatforms, nDevices, selected, device,
                   built, CPUtime, GPUtime1, GPUtime2, cpuC, A, B, C, buffer,
                   queue, waiting, hist>>
    /\ UNCHANGED kVars

\* lines 177-186
Report2 ==
    /\ pc = "report2"
    /\ out' = Append(out, ReportBlock(2, GPUtime2))
    /\ Exit("exit0")
    /\ UNCHANGED <<path, i, nPlatforms, nDevices, selected, device,
                   built, CPUtime, GPUtime1, GPUtime2, cpuC, A, B, C, buffer,
                   queue, waiting, hist>>
    /\ UNCHANGED kVars

-----------------------------------------------------------------------------
(* The device: the queue is in-order (line 113, default properties), so    *)
(* the oldest command completes first.                                     *)

HostData(obj) ==
    CASE obj = "A" -> A
      [] obj = "B" -> B
      [] OTHER -> hostConstants

Complete(cmd) ==
    /\ queue' = Tail(queue)
    /\ waiting' = IF cmd.blocking THEN FALSE ELSE waiting

DeviceWrite ==
    /\ queue # << >>
    /\ status = "running"
    /\ LET cmd == Head(queue) IN
        /\ cmd.op = "write"
        /\ buffer' = [buffer EXCEPT ![cmd.path][cmd.obj] = HostData(cmd.obj)]
        /\ Complete(cmd)
    /\ UNCHANGED <<pc, path, i, status, nPlatforms, nDevices, selected, device,
                   built, CPUtime, GPUtime1, GPUtime2, cpuC, A, B, C, hist, out>>
    /\ UNCHANGED kVars

DeviceKernel ==
    /\ queue # << >>
    /\ status = "running"
    /\ LET cmd == Head(queue)
           b == buffer[cmd.path]
           r == RunKernel(cmd.obj,
                          [v1 |-> b.A, v2 |-> b.B, v3 |-> b.C,
                           constants |-> b.constants],
                          Nthreads)
       IN
        /\ cmd.op = "launch"
        /\ buffer' = [buffer EXCEPT ![cmd.path] =
                        [A |-> r.v1, B |-> r.v2, C |-> r.v3,
                         constants |-> r.constants]]
        /\ Complete(cmd)
    /\ UNCHANGED <<pc, path, i, status, nPlatforms, nDevices, selected, device,
                   built, CPUtime, GPUtime1, GPUtime2, cpuC, A, B, C, hist, out>>
    /\ UNCHANGED kVars

DeviceRead ==
    /\ queue # << >>
    /\ status = "running"
    /\ LET cmd == Head(queue) IN
        /\ cmd.op = "read"
        /\ C' = buffer[cmd.path].C
        /\ Complete(cmd)
    /\ UNCHANGED <<pc, path, i, status, nPlatforms, nDevices, selected, device,
                   built, CPUtime, GPUtime1, GPUtime2, cpuC, A, B, buffer,
                   hist, out>>
    /\ UNCHANGED kVars

Next ==
    \/ GetPlatforms
    \/ GetDevices
    \/ SelectDevice
    \/ Build
    \/ RunCPU
    \/ Construct
    \/ Alloc
    \/ LoopTest
    \/ EnqueueWrite
    \/ Launch
    \/ EnqueueRead
    \/ StopTimer
    \/ Report1
    \/ Report2
    \/ DeviceWrite
    \/ DeviceKernel
    \/ DeviceRead

Spec == Init /\ [][Next]_vars

-----------------------------------------------------------------------------
(* One kernel launch on its own: the host has written v1, v2 and the       *)
(* constants {n, k}; v3 holds whatever the allocation left in it; the      *)
(* work-items 0..gsize-1 run once each, in any order.                      *)

KInit ==
    /\ MainInit
    /\ kernel \in {"add", "looped_add"}
    /\ gsize \in 1..MaxGlobalSize
    /\ \E nn \in 0..MaxN, kk \in 0..MaxK, g \in Uninit :
        \E a \in [0..(nn - 1) -> ElemVals], b \in [0..(nn - 1) -> ElemVals] :
            kin = [v1 |-> a, v2 |-> b, v3 |-> Fill(nn, g),
                   constants |-> [x \in 0..1 |-> IF x = 0 THEN nn ELSE kk]]
    /\ kmem = kin
    /\ ranges = {}
    /\ acc = {}

Done == {r.id : r \in ranges}

KWorkItem(name) ==
    /\ kernel = name
    /\ \E ID \in (0..(gsize - 1)) \ Done :
        /\ kmem' = WorkItem(name, kmem, gsize, ID)
        /\ ranges' = ranges \cup {RangeOf(kmem.constants, gsize, ID)}
        /\ acc' = acc \cup {[id |-> ID, buf |-> x.buf, idx |-> x.idx,
                             mode |-> x.mode] :
                            x \in Accesses(name, kmem.constants, gsize, ID)}
    /\ UNCHANGED <<kernel, gsize, kin>>
    /\ UNCHANGED mainVars

KAdd == KWorkItem("add")

KLoopedAdd == KWorkItem("looped_add")

KNext == KAdd \/ KLoopedAdd

KSpec == KInit /\ [][KNext]_vars

-----------------------------------------------------------------------------
(* Properties of main (Spec) *)

HistIdx(op, obj, pth) ==
    {m \in 1..Len(hist) :
        hist[m].op = op /\ hist[m].obj = obj /\ hist[m].path = pth}

InFlight(op, pth) ==
    \E m \in 1..Len(queue) : queue[m].op = op /\ queue[m].path = pth

\* The read of run pth has been issued and has completed.
ReadBack(pth) == HistIdx("read", "C", pth) # {} /\ ~InFlight("read", pth)

\* No later read has replaced what run pth read into C.
HoldsResultOf(pth) ==
    /\ ReadBack(pth)
    /\ \A q \in {1, 2} : q > pth => HistIdx("read", "C", q) = {}

\* C1: once a GPU run has finished and its output buffer has been read back
\* into the host array C, C[x] = A[x] + B[x] for every x in [0, n); this holds
\* after the run with looped_add and after the run with add.
C1_ElementwiseSum ==
    \A pth \in {1, 2} :
        HoldsResultOf(pth) =>
            /\ DOMAIN C = 0..(n - 1)
            /\ \A x \in 0..(n - 1) : C[x] = A[x] + B[x]
            /\ C = buffer[pth].C

C1_Witness ==
    /\ HoldsResultOf(2)
    /\ Cardinality(HistIdx("launch", "add", 2)) = k
    /\ Cardinality(HistIdx("launch", "looped_add", 1)) = 1
    /\ \A x \in 0..(n - 1) : C[x] = n - 1

\* C2: for every x in [0, n) the element C[x] a GPU run has read back equals
\* the element C[x] computed by timeAddVectorsCPU(n, k).
C2_GpuMatchesCpu ==
    \A pth \in {1, 2} :
        HoldsResultOf(pth) => \A x \in 0..(n - 1) : C[x] = cpuC[x]

\* C3: the program ends with exit code 1 if no platform is found, no device
\* is found or the build fails, with exit code 0 in every other case, and in
\* no other way.
C3_ExitCodes ==
    pc = "exited" =>
        /\ status \in {"exit0", "exit1"}
        /\ status = "exit1" <=>
             (nPlatforms = 0 \/ nDevices = 0 \/ built = "failed")

\* C4 as stated: every queue operation is synchronous, so at most one
\* operation is ever in flight.
C4_AtMostOneInFlight == Len(queue) <= 1

\* C4 amended: every buffer write and read blocks the host until it has
\* completed; a kernel launch does not, so the kernel can still be in flight
\* when the host issues the next operation, which is always a blocking
\* transfer behind it in the in-order queue.  At most two operations are in
\* flight, and none is when the host stops a timer or reports.
C4_TransfersBlock ==
    /\ Len(queue) <= 2
    /\ \A m \in 1..Len(queue) :
          queue[m].op \in {"write", "read"} => (waiting /\ m = Len(queue))
    /\ Len(queue) = 2 => queue[1].op = "launch"
    /\ waiting => (queue # << >> /\ queue[Len(queue)].op \in {"write", "read"})
    /\ (pc = "stop" /\ ~waiting) => queue = << >>
    /\ pc \in {"report1", "report2", "exited"} => queue = << >>

C4_Witness ==
    /\ Len(queue) = 2
    /\ queue[1].op = "launch"
    /\ queue[2].op = "read"
    /\ pc = "stop"

\* The ratio CPU-time / GPU-time is above 1 (x/0 is +inf for x > 0, 0/0 is
\* not a number and above nothing).
RatioAboveOne(c, g) == (g > 0 /\ c > g) \/ (g = 0 /\ c > 0)

\* C6: for each GPU variant exactly one verdict is printed, "faster" exactly
\* when CPU-time / GPU-time of that variant is strictly greater than 1 and
\* "slower" otherwise; both use the same CPU time; version 1 comes first.
C6_Verdicts ==
    /\ Len(out) <= 2
    /\ status = "exit0" => Len(out) = 2
    /\ \A m \in 1..Len(out) :
        /\ out[m].ver = m
        /\ out[m].cpu = CPUtime
        /\ out[m].gpu = (IF m = 1 THEN GPUtime1 ELSE GPUtime2)
        /\ out[m].verdict \in {"faster", "slower"}
        /\ out[m].verdict = "faster" <=> RatioAboveOne(out[m].cpu, out[m].gpu)

C6_Witness ==
    /\ status = "exit0"
    /\ out[1].verdict = "faster"
    /\ out[2].verdict = "slower"
    /\ out[2].gpu > 0
    /\ out[2].cpu = out[2].gpu

IsOp(m, op, obj, pth) ==
    /\ m \in 1..Len(hist)
    /\ hist[m].op = op
    /\ hist[m].obj = obj
    /\ hist[m].path = pth

\* The three uploads of the iteration come right before its launch of add.
UploadsBefore(m) ==
    /\ IsOp(m - 3, "write", "A", 2) /\ hist[m - 3].iter = hist[m].iter
    /\ IsOp(m - 2, "write", "B", 2) /\ hist[m - 2].iter = hist[m].iter
    /\ IsOp(m - 1, "write", "constants", 2) /\ hist[m - 1].iter = hist[m].iter

Allocs(pth) == {m \in 1..Len(hist) : hist[m].op = "alloc" /\ hist[m].path = pth}

\* C7 as stated: each of the k iterations of the second run allocates A, B, C
\* and constants, then uploads A, B and constants, then invokes add.
C7_AllocEveryIteration ==
    \A m \in HistIdx("launch", "add", 2) :
        /\ \A d \in 0..3 : IsOp(m - 7 + d, "alloc", BufferNames[d + 1], 2)
        /\ UploadsBefore(m)

\* C7 amended: the second run allocates A, B, C and constants once, before
\* its loop, and each of the k iterations uploads A, B and constants before
\* it invokes add.
C7_UploadEveryIteration ==
    /\ \A m \in HistIdx("launch", "add", 2) :
        /\ Cardinality(Allocs(2)) = 4
        /\ \A a \in Allocs(2) : a < m - 3 * (hist[m].iter + 1)
        /\ UploadsBefore(m)
    /\ \A b \in {"A", "B", "C", "constants"} :
          Cardinality(HistIdx("alloc", b, 2)) <= 1
    /\ status = "exit0" =>
          {hist[m].iter : m \in HistIdx("launch", "add", 2)} = 0..(k - 1)

C7_Witness ==
    /\ status = "exit0"
    /\ Cardinality(HistIdx("launch", "add", 2)) = k
    /\ Cardinality(HistIdx("write", "A", 2)) = k
    /\ Cardinality(Allocs(2)) = 4

The(S) == CHOOSE x \in S : TRUE

\* C8: in a complete successful run the first run allocates once, uploads A,
\* B and the constants once, launches looped_add once and reads once after
\* the launch; the second run launches add k times, once per iteration and
\* after that iteration's uploads, and reads once after the k-th launch; the
\* first run's read precedes every operation of the second run.
C8_RunShape ==
    status = "exit0" =>
        /\ \A b \in {"A", "B", "C", "constants"} :
              Cardinality(HistIdx("alloc", b, 1)) = 1
        /\ \A b \in {"A", "B", "constants"} :
              /\ Cardinality(HistIdx("write", b, 1)) = 1
              /\ The(HistIdx("write", b, 1)) < The(HistIdx("launch", "looped_add", 1))
              /\ \A a \in Allocs(1) : a < The(HistIdx("write", b, 1))
        /\ Cardinality(HistIdx("launch", "looped_add", 1)) = 1
        /\ HistIdx("launch", "add", 1) = {}
        /\ HistIdx("launch", "looped_add", 2) = {}
        /\ Cardinality(HistIdx("read", "C", 1)) = 1
        /\ The(HistIdx("launch", "looped_add", 1)) < The(HistIdx("read", "C", 1))
        /\ Cardinality(HistIdx("launch", "add", 2)) = k
        /\ \A it \in 0..(k - 1) :
              /\ Cardinality({m \in HistIdx("launch", "add", 2) :
                                hist[m].iter = it}) = 1
              /\ \A b \in {"A", "B", "constants"} :
                    \E w \in HistIdx("write", b, 2) :
                        /\ hist[w].iter = it
                        /\ \A m \in HistIdx("launch", "add", 2) :
                              /\ hist[m].iter = it => w < m
                              /\ hist[m].iter < it => m < w
        /\ Cardinality(HistIdx("read", "C", 2)) = 1
        /\ \A m \in HistIdx("launch", "add", 2) : m < The(HistIdx("read", "C", 2))
        /\ \A m \in 1..Len(hist) :
              hist[m].path = 2 => The(HistIdx("read", "C", 1)) < m

C8_Witness ==
    /\ status = "exit0"
    /\ Len(hist) = 4 + 3 + 1 + 1 + 4 + 4 * k + 1
    /\ hist[Len(hist)] = [op |-> "read", obj |-> "C", path |-> 2, iter |-> -1]

\* C9: device selection never indexes outside the device list: the index
\* main reads all_devices at is below the number of devices.
C9_IndexInRange == selected # -1 => selected < nDevices

-----------------------------------------------------------------------------
(* Properties of the kernels (KSpec) *)

AllItemsDone == kernel # "none" /\ Done = 0..(gsize - 1)

\* C5: for every n >= 0 and Nthreads >= 1 the ranges [start, stop) of the
\* work-items have the same size, no index belongs to two work-items, and
\* every index of [0, n) belongs to some work-item.
C5_EvenPartition ==
    AllItemsDone =>
        /\ \A r, t \in ranges : r.stop - r.start = t.stop - t.start
        /\ \A r, t \in ranges :
              r.id # t.id => (r.start..(r.stop - 1)) \cap (t.start..(t.stop - 1)) = {}
        /\ UNION {r.start..(r.stop - 1) : r \in ranges} = 0..(kin.constants[0] - 1)

\* C10: every index at which a work-item reads v1 or v2 or writes v3 lies in
\* [0, n), n the length of the buffers; the kernels write v3 only and leave
\* v1, v2 and the constants as they were.
C10_InBounds ==
    /\ \A a \in acc :
        /\ a.buf \in {"v1", "v2", "v3"} =>
              (0 <= a.idx /\ a.idx < kin.constants[0]
               /\ a.idx \in DOMAIN kmem[a.buf])
        /\ a.buf = "constants" => a.idx \in DOMAIN kmem.constants
        /\ a.mode = "w" => a.buf = "v3"
    /\ kmem.v1 = kin.v1
    /\ kmem.v2 = kin.v2
    /\ kmem.constants = kin.constants
    /\ DOMAIN kmem.v3 = DOMAIN kin.v3

C10_Witness ==
    /\ AllItemsDone
    /\ gsize = 3
    /\ kin.constants[0] = 4
    /\ kmem.v3 # kin.v3
    /\ \E a \in acc : a.mode = "w" /\ a.idx = 2 /\ a.id = 2

=============================================================================
